---- MODULE Spec2Model ----
(***************************************************************************)
(* Model of src/scraping.py: the Selenium scraper that reads production,   *)
(* consumption and grid feed-in from the SolarWeb dashboard and republishes *)
(* them to Home Assistant.                                                  *)
(*                                                                          *)
(* The state is main()'s: the last-known-good dict `last`, the readings of *)
(* the current tick, the `updated` flag, the position in the loop, plus the *)
(* browser's observable state (the page it shows, the current browsing      *)
(* context).  The browser and the sink are the environment: every call into *)
(* them takes its outcome from a small set with \E.                         *)
(***************************************************************************)
EXTENDS Integers, Sequences, FiniteSets

\* ------------------------------------------------------------------ values

\* Python's None (an absent value); watt values are non-negative integers.
None == -1

Metrics == {"prod", "cons", "grid"}

\* The watt values the dashboard shows in the model, per metric.
Shown(m) == CASE m = "prod" -> {0, 1200, 1300}
              [] m = "cons" -> {400}
              [] m = "grid" -> {0, 800}

\* A (prod, cons, grid) triple of Optional[int].
Readings == {r \in [Metrics -> {None, 0, 400, 800, 1200, 1300}] :
                \A m \in Metrics : r[m] \in Shown(m) \cup {None}}

AllNone == [m \in Metrics |-> None]

\* prod is None and cons is None and grid is None
AllAbsent(r) == \A m \in Metrics : r[m] = None

\* prod is None or cons is None or grid is None
AnyAbsent(r) == \E m \in Metrics : r[m] = None

\* No readings: scrape_once has not returned in this tick.
NoReadings == << >>

\* Python truthiness of an Optional[int]: None and 0 are falsy.
Truthy(v) == v # None /\ v # 0

\* Cap of the counter of reloads issued during a run of all-absent ticks.
MaxReloads == 3

VARIABLES
    pc,          \* position in main()
    last,        \* main: last = {"prod":..., "cons":..., "grid":...}
    cur,         \* scrape_once: its locals prod, cons, grid
    readings,    \* main: prod, grid, cons of this tick (NoReadings before line 433)
    updated,     \* main: updated
    pub,         \* the POSTs of this tick, in call order
    ha_configured, \* HA_TOKEN and HA_URL are both set
    interval_ok, \* SCRAPE_INTERVAL_SEC >= 0 (time.sleep accepts it)
    page,        \* the page the browser shows, one of Pages
    ctx,         \* current browsing context: "top" or "frame"
    relogin_due, \* time.time() - last_login > RELOGIN_MINUTES * 60
    exc,         \* the exception raised in this tick ("none" if none)
    driver,      \* the browser made at line 411: "open", or "quit" after 463
    \* History of the run, recorded for the properties; no action reads it
    \* to decide what the program does.
    ghost,       \* which of the history variables below this run records
    marked,      \* the metrics lines 436-438 wrote in this tick
    prev,        \* "prev": readings of the tick before (NoReadings if none)
    emptyRun,    \* "run": consecutive ticks, up to now, with all readings absent
    reloads,     \* "run": reload() calls issued during that run of ticks
    scen,        \* "scen": how many first ticks followed Scenario (-1: left it)
    txt,         \* "txt": what _extract_textwise returned at line 352
    xp,          \* "xp": what _extract_by_xpath returned at line 356
    zeroShown,   \* "zero": metrics whose top-level text match gave 0 at line 322
    observed,    \* "observed": per metric, the non-absent readings so far
    unsent,      \* "unsent": metrics whose last value no POST has delivered
    sawLogin,    \* "login": the page had a login indicator when this tick
                 \*          called on_login_or_consent_page
    submitted,   \* "login": this tick called do_login_fronius
    \* The parser on its own (SpecParse).
    arg,         \* the argument of a call of _parse_watts_str
    watts        \* what the call returned

vars == << pc, last, cur, readings, updated, pub, ha_configured, interval_ok,
           page, ctx, relogin_due, exc, driver, ghost, marked, prev,
           emptyRun, reloads, scen, txt, xp, zeroShown, observed, unsent,
           sawLogin, submitted, arg, watts >>

\* What only the two login checks of a tick change.
loginVars == << sawLogin, submitted >>

\* What a browser call or an extraction step leaves alone.
mainVars == << last, readings, updated, pub, ha_configured, interval_ok,
               driver, ghost, marked, prev, emptyRun, scen, observed, unsent,
               arg, watts >>

\* The value a history variable takes: v if this run records it.
Rec(name, v, off) == IF name \in ghost THEN v ELSE off

\* The end-to-end scenario of the specification (section 8).
Scenario == << [prod |-> 1200, cons |-> 400,  grid |-> 800],
               [prod |-> None, cons |-> 400,  grid |-> None],
               [prod |-> 1300, cons |-> None, grid |-> 0] >>

\* ------------------------------------------------------------------ parser

\* A text is a sequence of characters, each a string: the character itself,
\* or a name for a character outside ASCII: "nbsp" is U+00A0, "ar3" is U+0663
\* ARABIC-INDIC DIGIT THREE, "fw5" is U+FF15 FULLWIDTH DIGIT FIVE, "thin" is
\* U+2009, "kelvin" is U+212A KELVIN SIGN, "U+0966" is the character at that
\* code point.

\* The digits of JavaScript's \d and parseFloat, in the order of their values.
AsciiDigits == << "0", "1", "2", "3", "4", "5", "6", "7", "8", "9" >>

\* The 660 characters \d of a Python str pattern matches and float() converts:
\* the decimal digits of Unicode, 66 rows of ten, each in the order of its
\* values ("ar0".."ar9" is U+0660..U+0669, "fw0".."fw9" is U+FF10..U+FF19).
DigitRows ==
    { << "0", "1", "2", "3", "4", "5", "6", "7", "8", "9" >>,
      << "ar0", "ar1", "ar2", "ar3", "ar4", "ar5", "ar6", "ar7", "ar8", "ar9" >>,
      << "U+06F0", "U+06F1", "U+06F2", "U+06F3", "U+06F4", "U+06F5", "U+06F6", "U+06F7", "U+06F8", "U+06F9" >>,
      << "U+07C0", "U+07C1", "U+07C2", "U+07C3", "U+07C4", "U+07C5", "U+07C6", "U+07C7", "U+07C8", "U+07C9" >>,
      << "U+0966", "U+0967", "U+0968", "U+0969", "U+096A", "U+096B", "U+096C", "U+096D", "U+096E", "U+096F" >>,
      << "U+09E6", "U+09E7", "U+09E8", "U+09E9", "U+09EA", "U+09EB", "U+09EC", "U+09ED", "U+09EE", "U+09EF" >>,
      << "U+0A66", "U+0A67", "U+0A68", "U+0A69", "U+0A6A", "U+0A6B", "U+0A6C", "U+0A6D", "U+0A6E", "U+0A6F" >>,
      << "U+0AE6", "U+0AE7", "U+0AE8", "U+0AE9", "U+0AEA", "U+0AEB", "U+0AEC", "U+0AED", "U+0AEE", "U+0AEF" >>,
      << "U+0B66", "U+0B67", "U+0B68", "U+0B69", "U+0B6A", "U+0B6B", "U+0B6C", "U+0B6D", "U+0B6E", "U+0B6F" >>,
      << "U+0BE6", "U+0BE7", "U+0BE8", "U+0BE9", "U+0BEA", "U+0BEB", "U+0BEC", "U+0BED", "U+0BEE", "U+0BEF" >>,
      << "U+0C66", "U+0C67", "U+0C68", "U+0C69", "U+0C6A", "U+0C6B", "U+0C6C", "U+0C6D", "U+0C6E", "U+0C6F" >>,
      << "U+0CE6", "U+0CE7", "U+0CE8", "U+0CE9", "U+0CEA", "U+0CEB", "U+0CEC", "U+0CED", "U+0CEE", "U+0CEF" >>,
      << "U+0D66", "U+0D67", "U+0D68", "U+0D69", "U+0D6A", "U+0D6B", "U+0D6C", "U+0D6D", "U+0D6E", "U+0D6F" >>,
      << "U+0DE6", "U+0DE7", "U+0DE8", "U+0DE9", "U+0DEA", "U+0DEB", "U+0DEC", "U+0DED", "U+0DEE", "U+0DEF" >>,
      << "U+0E50", "U+0E51", "U+0E52", "U+0E53", "U+0E54", "U+0E55", "U+0E56", "U+0E57", "U+0E58", "U+0E59" >>,
      << "U+0ED0", "U+0ED1", "U+0ED2", "U+0ED3", "U+0ED4", "U+0ED5", "U+0ED6", "U+0ED7", "U+0ED8", "U+0ED9" >>,
      << "U+0F20", "U+0F21", "U+0F22", "U+0F23", "U+0F24", "U+0F25", "U+0F26", "U+0F27", "U+0F28", "U+0F29" >>,
      << "U+1040", "U+1041", "U+1042", "U+1043", "U+1044", "U+1045", "U+1046", "U+1047", "U+1048", "U+1049" >>,
      << "U+1090", "U+1091", "U+1092", "U+1093", "U+1094", "U+1095", "U+1096", "U+1097", "U+1098", "U+1099" >>,
      << "U+17E0", "U+17E1", "U+17E2", "U+17E3", "U+17E4", "U+17E5", "U+17E6", "U+17E7", "U+17E8", "U+17E9" >>,
      << "U+1810", "U+1811", "U+1812", "U+1813", "U+1814", "U+1815", "U+1816", "U+1817", "U+1818", "U+1819" >>,
      << "U+1946", "U+1947", "U+1948", "U+1949", "U+194A", "U+194B", "U+194C", "U+194D", "U+194E", "U+194F" >>,
      << "U+19D0", "U+19D1", "U+19D2", "U+19D3", "U+19D4", "U+19D5", "U+19D6", "U+19D7", "U+19D8", "U+19D9" >>,
      << "U+1A80", "U+1A81", "U+1A82", "U+1A83", "U+1A84", "U+1A85", "U+1A86", "U+1A87", "U+1A88", "U+1A89" >>,
      << "U+1A90", "U+1A91", "U+1A92", "U+1A93", "U+1A94", "U+1A95", "U+1A96", "U+1A97", "U+1A98", "U+1A99" >>,
      << "U+1B50", "U+1B51", "U+1B52", "U+1B53", "U+1B54", "U+1B55", "U+1B56", "U+1B57", "U+1B58", "U+1B59" >>,
      << "U+1BB0", "U+1BB1", "U+1BB2", "U+1BB3", "U+1BB4", "U+1BB5", "U+1BB6", "U+1BB7", "U+1BB8", "U+1BB9" >>,
      << "U+1C40", "U+1C41", "U+1C42", "U+1C43", "U+1C44", "U+1C45", "U+1C46", "U+1C47", "U+1C48", "U+1C49" >>,
      << "U+1C50", "U+1C51", "U+1C52", "U+1C53", "U+1C54", "U+1C55", "U+1C56", "U+1C57", "U+1C58", "U+1C59" >>,
      << "U+A620", "U+A621", "U+A622", "U+A623", "U+A624", "U+A625", "U+A626", "U+A627", "U+A628", "U+A629" >>,
      << "U+A8D0", "U+A8D1", "U+A8D2", "U+A8D3", "U+A8D4", "U+A8D5", "U+A8D6", "U+A8D7", "U+A8D8", "U+A8D9" >>,
      << "U+A900", "U+A901", "U+A902", "U+A903", "U+A904", "U+A905", "U+A906", "U+A907", "U+A908", "U+A909" >>,
      << "U+A9D0", "U+A9D1", "U+A9D2", "U+A9D3", "U+A9D4", "U+A9D5", "U+A9D6", "U+A9D7", "U+A9D8", "U+A9D9" >>,
      << "U+A9F0", "U+A9F1", "U+A9F2", "U+A9F3", "U+A9F4", "U+A9F5", "U+A9F6", "U+A9F7", "U+A9F8", "U+A9F9" >>,
      << "U+AA50", "U+AA51", "U+AA52", "U+AA53", "U+AA54", "U+AA55", "U+AA56", "U+AA57", "U+AA58", "U+AA59" >>,
      << "U+ABF0", "U+ABF1", "U+ABF2", "U+ABF3", "U+ABF4", "U+ABF5", "U+ABF6", "U+ABF7", "U+ABF8", "U+ABF9" >>,
      << "fw0", "fw1", "fw2", "fw3", "fw4", "fw5", "fw6", "fw7", "fw8", "fw9" >>,
      << "U+104A0", "U+104A1", "U+104A2", "U+104A3", "U+104A4", "U+104A5", "U+104A6", "U+104A7", "U+104A8", "U+104A9" >>,
      << "U+10D30", "U+10D31", "U+10D32", "U+10D33", "U+10D34", "U+10D35", "U+10D36", "U+10D37", "U+10D38", "U+10D39" >>,
      << "U+11066", "U+11067", "U+11068", "U+11069", "U+1106A", "U+1106B", "U+1106C", "U+1106D", "U+1106E", "U+1106F" >>,
      << "U+110F0", "U+110F1", "U+110F2", "U+110F3", "U+110F4", "U+110F5", "U+110F6", "U+110F7", "U+110F8", "U+110F9" >>,
      << "U+11136", "U+11137", "U+11138", "U+11139", "U+1113A", "U+1113B", "U+1113C", "U+1113D", "U+1113E", "U+1113F" >>,
      << "U+111D0", "U+111D1", "U+111D2", "U+111D3", "U+111D4", "U+111D5", "U+111D6", "U+111D7", "U+111D8", "U+111D9" >>,
      << "U+112F0", "U+112F1", "U+112F2", "U+112F3", "U+112F4", "U+112F5", "U+112F6", "U+112F7", "U+112F8", "U+112F9" >>,
      << "U+11450", "U+11451", "U+11452", "U+11453", "U+11454", "U+11455", "U+11456", "U+11457", "U+11458", "U+11459" >>,
      << "U+114D0", "U+114D1", "U+114D2", "U+114D3", "U+114D4", "U+114D5", "U+114D6", "U+114D7", "U+114D8", "U+114D9" >>,
      << "U+11650", "U+11651", "U+11652", "U+11653", "U+11654", "U+11655", "U+11656", "U+11657", "U+11658", "U+11659" >>,
      << "U+116C0", "U+116C1", "U+116C2", "U+116C3", "U+116C4", "U+116C5", "U+116C6", "U+116C7", "U+116C8", "U+116C9" >>,
      << "U+11730", "U+11731", "U+11732", "U+11733", "U+11734", "U+11735", "U+11736", "U+11737", "U+11738", "U+11739" >>,
      << "U+118E0", "U+118E1", "U+118E2", "U+118E3", "U+118E4", "U+118E5", "U+118E6", "U+118E7", "U+118E8", "U+118E9" >>,
      << "U+11950", "U+11951", "U+11952", "U+11953", "U+11954", "U+11955", "U+11956", "U+11957", "U+11958", "U+11959" >>,
      << "U+11C50", "U+11C51", "U+11C52", "U+11C53", "U+11C54", "U+11C55", "U+11C56", "U+11C57", "U+11C58", "U+11C59" >>,
      << "U+11D50", "U+11D51", "U+11D52", "U+11D53", "U+11D54", "U+11D55", "U+11D56", "U+11D57", "U+11D58", "U+11D59" >>,
      << "U+11DA0", "U+11DA1", "U+11DA2", "U+11DA3", "U+11DA4", "U+11DA5", "U+11DA6", "U+11DA7", "U+11DA8", "U+11DA9" >>,
      << "U+16A60", "U+16A61", "U+16A62", "U+16A63", "U+16A64", "U+16A65", "U+16A66", "U+16A67", "U+16A68", "U+16A69" >>,
      << "U+16AC0", "U+16AC1", "U+16AC2", "U+16AC3", "U+16AC4", "U+16AC5", "U+16AC6", "U+16AC7", "U+16AC8", "U+16AC9" >>,
      << "U+16B50", "U+16B51", "U+16B52", "U+16B53", "U+16B54", "U+16B55", "U+16B56", "U+16B57", "U+16B58", "U+16B59" >>,
      << "U+1D7CE", "U+1D7CF", "U+1D7D0", "U+1D7D1", "U+1D7D2", "U+1D7D3", "U+1D7D4", "U+1D7D5", "U+1D7D6", "U+1D7D7" >>,
      << "U+1D7D8", "U+1D7D9", "U+1D7DA", "U+1D7DB", "U+1D7DC", "U+1D7DD", "U+1D7DE", "U+1D7DF", "U+1D7E0", "U+1D7E1" >>,
      << "U+1D7E2", "U+1D7E3", "U+1D7E4", "U+1D7E5", "U+1D7E6", "U+1D7E7", "U+1D7E8", "U+1D7E9", "U+1D7EA", "U+1D7EB" >>,
      << "U+1D7EC", "U+1D7ED", "U+1D7EE", "U+1D7EF", "U+1D7F0", "U+1D7F1", "U+1D7F2", "U+1D7F3", "U+1D7F4", "U+1D7F5" >>,
      << "U+1D7F6", "U+1D7F7", "U+1D7F8", "U+1D7F9", "U+1D7FA", "U+1D7FB", "U+1D7FC", "U+1D7FD", "U+1D7FE", "U+1D7FF" >>,
      << "U+1E140", "U+1E141", "U+1E142", "U+1E143", "U+1E144", "U+1E145", "U+1E146", "U+1E147", "U+1E148", "U+1E149" >>,
      << "U+1E2F0", "U+1E2F1", "U+1E2F2", "U+1E2F3", "U+1E2F4", "U+1E2F5", "U+1E2F6", "U+1E2F7", "U+1E2F8", "U+1E2F9" >>,
      << "U+1E950", "U+1E951", "U+1E952", "U+1E953", "U+1E954", "U+1E955", "U+1E956", "U+1E957", "U+1E958", "U+1E959" >>,
      << "U+1FBF0", "U+1FBF1", "U+1FBF2", "U+1FBF3", "U+1FBF4", "U+1FBF5", "U+1FBF6", "U+1FBF7", "U+1FBF8", "U+1FBF9" >> }

\* What \d of the JavaScript patterns (no u flag) matches.
JsDigits == {AsciiDigits[i] : i \in 1..Len(AsciiDigits)}

\* What \d of a Python str pattern matches: every Unicode decimal digit.
Digits == UNION {{row[i] : i \in 1..Len(row)} : row \in DigitRows}

\* The value float() gives each digit.
DigitValues ==
    [c \in Digits |-> CHOOSE v \in 0..9 : \E row \in DigitRows : row[v + 1] = c]

DigitVal(c) == DigitValues[c]

\* The characters \s of a Python str pattern matches and strip() removes, the
\* 29 characters with str.isspace(): U+0009..U+000D ("vt" is U+000B),
\* U+001C..U+001F, space, U+0085 ("nel"), U+00A0, U+1680, U+2000..U+200A
\* ("thin" is U+2009), U+2028, U+2029, U+202F ("nnbsp"), U+205F, U+3000.
Spaces ==
    { "\t", "\n", "vt", "\f", "\r", "x1c", "x1d", "x1e", "x1f", " ", "nel",
      "nbsp", "u1680", "u2000", "u2001", "u2002", "u2003", "u2004", "u2005",
      "u2006", "u2007", "u2008", "thin", "u200a", "u2028", "u2029", "nnbsp",
      "u205f", "u3000" }

UpperLetters == << "A", "B", "C", "D", "E", "F", "G", "H", "I", "J", "K", "L",
                   "M", "N", "O", "P", "Q", "R", "S", "T", "U", "V", "W", "X",
                   "Y", "Z" >>

LowerLetters == << "a", "b", "c", "d", "e", "f", "g", "h", "i", "j", "k", "l",
                   "m", "n", "o", "p", "q", "r", "s", "t", "u", "v", "w", "x",
                   "y", "z" >>

\* str.lower() on one character of a text of the model: A..Z and U+212A
\* KELVIN SIGN have a lower-case letter, the other characters stay.  For the
\* letters k and w of the unit this is also what re.I matches.
Lower(c) ==
    IF \E i \in 1..Len(UpperLetters) : UpperLetters[i] = c
    THEN LowerLetters[CHOOSE i \in 1..Len(UpperLetters) : UpperLetters[i] = c]
    ELSE IF c = "kelvin" THEN "k"
    ELSE c

\* s.replace("\xa0", " ")
ReplaceNbsp(s) == [i \in 1..Len(s) |-> IF s[i] = "nbsp" THEN " " ELSE s[i]]

\* s.strip()
RECURSIVE Strip(_)
Strip(s) ==
    IF s = << >> THEN s
    ELSE IF s[1] \in Spaces THEN Strip(SubSeq(s, 2, Len(s)))
    ELSE IF s[Len(s)] \in Spaces THEN Strip(SubSeq(s, 1, Len(s) - 1))
    ELSE s

\* re.search: the index of the first digit of s at or after i (0: no match).
RECURSIVE FirstDigit(_, _)
FirstDigit(s, i) ==
    IF i > Len(s) THEN 0
    ELSE IF s[i] \in Digits THEN i
    ELSE FirstDigit(s, i + 1)

\* \d+ at i, \d matching the characters of D: the index of the last digit
\* of the run.
RECURSIVE DigitsEnd(_, _, _)
DigitsEnd(D, s, i) ==
    IF i + 1 <= Len(s) /\ s[i + 1] \in D THEN DigitsEnd(D, s, i + 1) ELSE i

\* \s* at i: the index of the first character at or after i that is no space.
RECURSIVE SkipSpaces(_, _)
SkipSpaces(s, i) ==
    IF i <= Len(s) /\ s[i] \in Spaces THEN SkipSpaces(s, i + 1) ELSE i


\* ---- natural numbers of any size
\*
\* float() reads numbers of any length and keeps 53 binary digits of them, so
\* the parser's arithmetic is done on natural numbers written as sequences of
\* digits in base Base, the least significant first, without leading zeros
\* (0 is << >>).
Base == 2^15

\* The number of binary digits of n.
RECURSIVE SmallBitLen(_)
SmallBitLen(n) == IF n = 0 THEN 0 ELSE 1 + SmallBitLen(n \div 2)

BaseBits == SmallBitLen(Base) - 1

RECURSIVE BigTrim(_)
BigTrim(x) ==
    IF x # << >> /\ x[Len(x)] = 0 THEN BigTrim(SubSeq(x, 1, Len(x) - 1)) ELSE x

\* x * m + c, for m and c up to Base.
RECURSIVE BigMulAdd(_, _, _)
BigMulAdd(x, m, c) ==
    IF x = << >>
    THEN IF c = 0 THEN << >> ELSE << c % Base >> \o BigMulAdd(x, m, c \div Base)
    ELSE LET v == x[1] * m + c
         IN  << v % Base >> \o BigMulAdd(Tail(x), m, v \div Base)

\* -1, 0 or 1 as x is below, equal to or above y, which has x's length,
\* looking at the digits from the i-th down.
RECURSIVE BigCmpAt(_, _, _)
BigCmpAt(x, y, i) ==
    IF i = 0 THEN 0
    ELSE IF x[i] < y[i] THEN -1
    ELSE IF x[i] > y[i] THEN 1
    ELSE BigCmpAt(x, y, i - 1)

BigCmp(x, y) ==
    IF Len(x) < Len(y) THEN -1
    ELSE IF Len(x) > Len(y) THEN 1
    ELSE BigCmpAt(x, y, Len(x))

\* The digits from the i-th on of x - y - borrow (x >= y).
RECURSIVE BigSubAt(_, _, _, _)
BigSubAt(x, y, i, borrow) ==
    IF i > Len(x) THEN << >>
    ELSE LET v == x[i] - (IF i <= Len(y) THEN y[i] ELSE 0) - borrow
         IN  << IF v < 0 THEN v + Base ELSE v >>
                \o BigSubAt(x, y, i + 1, IF v < 0 THEN 1 ELSE 0)

\* The digits from the i-th on of x + y + carry.
RECURSIVE BigAddAt(_, _, _, _)
BigAddAt(x, y, i, carry) ==
    IF i > Len(x) /\ i > Len(y) THEN IF carry = 0 THEN << >> ELSE << carry >>
    ELSE LET v == (IF i <= Len(x) THEN x[i] ELSE 0)
                    + (IF i <= Len(y) THEN y[i] ELSE 0) + carry
         IN  << v % Base >> \o BigAddAt(x, y, i + 1, v \div Base)

\* x + y
BigAdd(x, y) == BigAddAt(x, y, 1, 0)

\* |x - y|
BigDist(x, y) ==
    BigTrim(IF BigCmp(x, y) >= 0 THEN BigSubAt(x, y, 1, 0) ELSE BigSubAt(y, x, 1, 0))

\* (r * Base^i + the digits up to the i-th of x) divided by d, for d up to
\* Base: the quotient's digits and the remainder.
RECURSIVE BigDivAt(_, _, _, _)
BigDivAt(x, i, d, r) ==
    IF i = 0 THEN [q |-> << >>, r |-> r]
    ELSE LET v == r * Base + x[i]
             rest == BigDivAt(x, i - 1, d, v % d)
         IN  [q |-> rest.q \o << v \div d >>, r |-> rest.r]

\* The arithmetic takes four decimal digits in one step (10^4 is below Base):
\* the number of digits in the last step of n digits.
LastChunk(n) == IF n % 4 = 0 THEN 4 ELSE n % 4

\* x divided by 10^n: the quotient q, and whether nothing was left over.
RECURSIVE BigDivPow10(_, _)
BigDivPow10(x, n) ==
    IF n = 0 THEN [q |-> x, exact |-> TRUE]
    ELSE LET c == LastChunk(n)
             high == BigDivPow10(x, n - c)
             d == BigDivAt(high.q, Len(high.q), 10^c, 0)
         IN  [q |-> BigTrim(d.q), exact |-> high.exact /\ d.r = 0]

\* x * 10^n
RECURSIVE BigTimesPow10(_, _)
BigTimesPow10(x, n) ==
    IF n = 0 THEN x
    ELSE BigMulAdd(BigTimesPow10(x, n - LastChunk(n)), 10^LastChunk(n), 0)

\* 2^n
BigPow2(n) == [i \in 1..(n \div BaseBits) |-> 0] \o << 2^(n % BaseBits) >>

\* x * 2^n
BigTimesPow2(x, n) ==
    IF x = << >> THEN x
    ELSE [i \in 1..(n \div BaseBits) |-> 0] \o BigMulAdd(x, 2^(n % BaseBits), 0)

\* x divided by 2^n: the quotient q and the remainder r.
BigDivPow2(x, n) ==
    LET w == n \div BaseBits
        high == SubSeq(x, w + 1, Len(x))
        d == BigDivAt(high, Len(high), 2^(n % BaseBits), 0)
    IN  [q |-> BigTrim(d.q),
         r |-> BigTrim(SubSeq(x, 1, IF w < Len(x) THEN w ELSE Len(x)) \o << d.r >>)]

\* The number of binary digits of x.
BitLen(x) ==
    IF x = << >> THEN 0 ELSE BaseBits * (Len(x) - 1) + SmallBitLen(x[Len(x)])

BigOdd(x) == x # << >> /\ x[1] % 2 = 1

RECURSIVE BigOfInt(_)
BigOfInt(n) == IF n = 0 THEN << >> ELSE << n % Base >> \o BigOfInt(n \div Base)

\* x as an integer of the model (x below 2^31).
RECURSIVE BigToInt(_)
BigToInt(x) == IF x = << >> THEN 0 ELSE x[1] + Base * BigToInt(Tail(x))

\* The number the digits s[i..j] write, for at most four digits.
RECURSIVE SmallValue(_, _, _)
SmallValue(s, i, j) ==
    IF j < i THEN 0 ELSE 10 * SmallValue(s, i, j - 1) + DigitVal(s[j])

\* The number the digits s[i..j] write.
RECURSIVE DigitsValue(_, _, _)
DigitsValue(s, i, j) ==
    IF j < i THEN << >>
    ELSE LET c == LastChunk(j - i + 1)
         IN  BigMulAdd(DigitsValue(s, i, j - c), 10^c, SmallValue(s, j - c + 1, j))

\* (x + f) / 2^t, for t >= 1 and a fraction f < 1 that is 0 iff `exact`, to
\* the nearest integer, a half to the even one.
RoundHalfEven(x, t, exact) ==
    LET d == BigDivPow2(x, t)
        c == BigCmp(d.r, BigPow2(t - 1))
    IN  IF c > 0 \/ (c = 0 /\ (~exact \/ BigOdd(d.q)))
        THEN BigMulAdd(d.q, 1, 1) ELSE d.q

\* x / 2^t, for t >= 1, to the nearest integer, a half upwards.
RoundHalfUp(x, t) ==
    LET d == BigDivPow2(x, t)
    IN  IF BigCmp(d.r, BigPow2(t - 1)) >= 0 THEN BigMulAdd(d.q, 1, 1) ELSE d.q

\* ---- binary64
\*
\* A float is [m, p]: the number m * 2^p, m a natural number of at most
\* MantissaBits binary digits (2^MantissaBits itself after a carry).  Texts
\* whose number leaves the exponent range of binary64 (above 1.8e308, or
\* below 2.2e-308) are outside the model.
MantissaBits == 53

\* x * 2^p, x of any size, as a float: x rounded to MantissaBits digits.
FloatRound(x, p, exact) ==
    LET t == BitLen(x) - MantissaBits
    IN  IF t <= 0 THEN [m |-> x, p |-> p]
        ELSE [m |-> RoundHalfEven(x, t, exact), p |-> p + t]

\* float() of the decimal number num / 10^k: the binary64 nearest to it.  The
\* quotient num * 2^s \div 10^k is taken with two digits more than the float
\* keeps, and rounded.
FloatOf(num, k) ==
    IF num = << >> THEN [m |-> << >>, p |-> 0]
    ELSE LET need == MantissaBits + 2 + BitLen(BigTimesPow10(<< 1 >>, k))
                       - BitLen(num)
             s == IF need > 0 THEN need ELSE 0
             d == BigDivPow10(BigTimesPow2(num, s), k)
         IN  FloatRound(d.q, 0 - s, d.exact)

\* v * k for a natural k up to Base: the product, rounded.
FloatTimes(v, k) == FloatRound(BigMulAdd(v.m, k, 0), v.p, TRUE)

\* Python's int(round(v)): to the nearest integer, a half to the even one.
PyRound(v) ==
    BigToInt(IF v.p >= 0 THEN BigTimesPow2(v.m, v.p)
             ELSE RoundHalfEven(v.m, 0 - v.p, TRUE))

\* JavaScript's Math.round(v): to the nearest integer, a half upwards.
MathRound(v) ==
    BigToInt(IF v.p >= 0 THEN BigTimesPow2(v.m, v.p)
             ELSE RoundHalfUp(v.m, 0 - v.p))

\* (\d+(?:[.,]\d+)?) at the digit s[i], \d matching the characters of D: the
\* number num / 10^k the match writes (float() and parseFloat read either
\* separator, replaced by a period, as the decimal point) and the index of
\* its last character.
Decimal(D, s, i) ==
    LET j == DigitsEnd(D, s, i)
        frac == j + 2 <= Len(s) /\ s[j + 1] \in {".", ","} /\ s[j + 2] \in D
        e == IF frac THEN DigitsEnd(D, s, j + 2) ELSE j
    IN  IF frac
        THEN [num |-> DigitsValue(SubSeq(s, i, j) \o SubSeq(s, j + 2, e),
                                  1, e - i),
              k |-> e - j - 1, end |-> e]
        ELSE [num |-> DigitsValue(s, i, j), k |-> 0, end |-> e]

\* (kW|W)? at s[u], case-insensitive, lowered: "kw", "w" or "" (no unit).
Unit(s, u) ==
    IF u + 1 <= Len(s) /\ Lower(s[u]) = "k" /\ Lower(s[u + 1]) = "w" THEN "kw"
    ELSE IF u <= Len(s) /\ Lower(s[u]) = "w" THEN "w"
    ELSE ""

\* _parse_watts_str reading a minus sign in front of the number.
_parse_watts_signed(s) ==
    IF s = << >> THEN None
    ELSE LET t == Strip(ReplaceNbsp(s))
             i == FirstDigit(t, 1)
         IN  IF i = 0 THEN None
             ELSE LET m == Decimal(Digits, t, i)
                      unit == Unit(t, SkipSpaces(t, m.end + 1))
                      val == FloatOf(m.num, m.k)
                      w == PyRound(IF unit = "kw" THEN FloatTimes(val, 1000)
                                   ELSE val)
                  IN  IF i > 1 /\ t[i - 1] = "-" THEN 0 - w ELSE w

\* _parse_watts_str(s) (73-81).
_parse_watts_str(s) ==
    IF s = << >> THEN None                                   \* if not s
    ELSE LET t == Strip(ReplaceNbsp(s))
             i == FirstDigit(t, 1)
         IN  IF i = 0 THEN None                              \* if not m
             ELSE LET m == Decimal(Digits, t, i)
                      unit == Unit(t, SkipSpaces(t, m.end + 1))
                      val == FloatOf(m.num, m.k)           \* float(...)
                  IN  PyRound(IF unit = "kw" THEN FloatTimes(val, 1000)
                              ELSE val)

\* JS_EXTRACT's toWatts(numStr, unit) (96-102); numStr and unit are the two
\* groups of a pattern's match, << >> for null.  numStr starts with an ASCII
\* digit or is no number: parseFloat reads the ASCII digits the text starts
\* with, a fraction after them, and stops at any other character.
toWatts(numStr, unit) ==
    IF numStr = << >> THEN None
    ELSE IF numStr[1] \notin JsDigits THEN None              \* isNaN(v)
    ELSE LET m == Decimal(JsDigits, numStr, 1)
             v == FloatOf(m.num, m.k)
         IN  MathRound(IF Unit(unit, 1) = "kw" /\ Len(unit) = 2
                       THEN FloatTimes(v, 1000) ELSE v)

\* The texts the three XPath elements show in the model, per metric.
ElementTexts(m) ==
    CASE m = "prod" -> { << "1", ",", "2", " ", "k", "W" >>,
                         << "1", "3", "0", "0", " ", "W" >>,
                         << "0", " ", "W" >>,
                         << "-", "-" >> }
      [] m = "cons" -> { << "4", "0", "0", "nbsp", "W" >>,
                         << >> }
      [] m = "grid" -> { << "-", "8", "0", "0", " ", "W" >>,
                         << "0", ".", "0", " ", "k", "w" >>,
                         << "n", "/", "a" >> }

\* What the three element lookups of _extract_by_xpath (283-292, 301-312)
\* can give: each text parsed.
XpathReadings ==
    {[m \in Metrics |-> _parse_watts_str(raw[m])] :
        raw \in {f \in [Metrics -> UNION {ElementTexts(m) : m \in Metrics}] :
                    \A m \in Metrics : f[m] \in ElementTexts(m)}}

\* The (number, unit) groups the patterns of JS_EXTRACT (92-94) match in the
\* model, per metric; no match gives null.
PatternMatches(m) ==
    CASE m = "prod" -> { << << "1", ".", "2" >>, << "k", "W" >> >>,
                         << << "1", "3", "0", "0" >>, << "W" >> >>,
                         << << "0" >>, << "W" >> >> }
      [] m = "cons" -> { << << "0", ",", "4" >>, << "K", "W" >> >> }
      [] m = "grid" -> { << << "8", "0", "0" >>, << "w" >> >>,
                         << << "0", ",", "4" >>, << "W" >> >> }

\* production: prodMatch ? toWatts(prodMatch[1], prodMatch[2]) : null  (106-110)
ScriptReadings ==
    {[m \in Metrics |-> IF hit[m] = << >> THEN None
                        ELSE toWatts(hit[m][1], hit[m][2])] :
        hit \in {f \in [Metrics -> {<< >>} \cup
                                  UNION {PatternMatches(m) : m \in Metrics}] :
                    \A m \in Metrics : f[m] \in PatternMatches(m) \cup {<< >>}}}

\* ----------------------------------------------------------------- browser

\* LOGIN_URL (48) and PV_SYSTEM_URL (51), their defaults.
LOGIN_URL ==
    << "h", "t", "t", "p", "s", ":", "/", "/", "l", "o", "g", "i", "n", ".",
       "f", "r", "o", "n", "i", "u", "s", ".", "c", "o", "m" >>

PV_SYSTEM_URL ==
    << "h", "t", "t", "p", "s", ":", "/", "/", "w", "w", "w", ".", "s", "o",
       "l", "a", "r", "w", "e", "b", ".", "c", "o", "m", "/", "P", "v", "S",
       "y", "s", "t", "e", "m", "s", "/", "P", "v", "S", "y", "s", "t", "e",
       "m", "?", "p", "v", "S", "y", "s", "t", "e", "m", "I", "d", "=", "a",
       "2", "0", "6", "4", "e", "7", "f", "-", "8", "0", "7", "b", "-", "4",
       "e", "c", "8", "-", "9", "9", "e", "2", "-", "d", "2", "7", "1", "d",
       "a", "2", "9", "2", "2", "7", "5" >>

\* The pages the browser shows in the model:
\*   blank      the new browser's page, before the first driver.get
\*   home       where the site goes after an accepted login
\*   dashboard  the PV system page
\*   login      the Fronius login form, reached by driver.get(LOGIN_URL)
\*   signin     the site's sign-in page, to which it redirects a request for
\*              the PV system page made without a session
\*   expired    the PV system page's address showing the sign-in form, after
\*              the session was dropped
Pages == {"blank", "home", "dashboard", "login", "signin", "expired"}

\* The pages of them that show a login form.
LoginPages == {"login", "signin", "expired"}

\* The browser shows a login form.
onLogin == page \in LoginPages

\* driver.current_url while page p is shown.
Url(p) ==
    CASE p = "blank"     -> << "d", "a", "t", "a", ":", "," >>
      [] p = "home"      -> << "h", "t", "t", "p", "s", ":", "/", "/", "w", "w", "w", ".", "s", "o",
                             "l", "a", "r", "w", "e", "b", ".", "c", "o", "m", "/" >>
      [] p = "dashboard" -> PV_SYSTEM_URL
      [] p = "login"     -> LOGIN_URL \o << "/" >>
      [] p = "signin"    -> << "h", "t", "t", "p", "s", ":", "/", "/", "w", "w", "w", ".", "s", "o",
                             "l", "a", "r", "w", "e", "b", ".", "c", "o", "m", "/", "A", "c", "c",
                             "o", "u", "n", "t", "/", "S", "i", "g", "n", "I", "n" >>
      [] p = "expired"   -> PV_SYSTEM_URL

\* driver.title while page p is shown.
Title(p) ==
    CASE p = "blank"     -> << >>
      [] p = "home"      -> << "S", "o", "l", "a", "r", ".", "w", "e", "b" >>
      [] p = "dashboard" -> << "S", "o", "l", "a", "r", ".", "w", "e", "b" >>
      [] p = "login"     -> << "F", "r", "o", "n", "i", "u", "s" >>
      [] p = "signin"    -> << "A", "n", "m", "e", "l", "d", "e", "n" >>
      [] p = "expired"   -> << "S", "i", "g", "n", " ", "I", "n" >>

\* str.lower() of a text.
LowerText(s) == [i \in 1..Len(s) |-> Lower(s[i])]

\* w in s
Contains(s, w) ==
    \E i \in 0..(Len(s) - Len(w)) : \A j \in 1..Len(w) : s[i + j] = w[j]

\* on_login_or_consent_page answering yes whatever the page shows.
login_page_assumed(reads, url, title) ==
    IF ~reads THEN [exc |-> "login_check", yes |-> FALSE]
    ELSE [exc |-> "none", yes |-> TRUE]

\* on_login_or_consent_page(driver) (241-244).  url and title are what
\* driver.current_url and driver.title give, the empty text for None (`or ""`);
\* reads is FALSE when one of the two reads raises: nothing guards them, the
\* exception leaves the function.
on_login_or_consent_page(reads, url, title) ==
    IF ~reads THEN [exc |-> "login_check", yes |-> FALSE]
    ELSE LET u == LowerText(url)
             t == LowerText(title)
         IN  [exc |-> "none",
              yes |-> \/ Contains(u, << "l", "o", "g", "i", "n" >>)
                      \/ Contains(u, << "s", "i", "g", "n", "i", "n" >>)
                      \/ Contains(t, << "s", "i", "g", "n", " ", "i", "n" >>)
                      \/ Contains(t, << "a", "n", "m", "e", "l", "d", "e", "n" >>)]

\* on_login_or_consent_page(driver) while the browser shows page p, for every
\* page.
LoginCheck ==
    [reads \in BOOLEAN, p \in Pages |->
        on_login_or_consent_page(reads, Url(p), Title(p))]

\* do_login_fronius(driver).  What the browser does:
\*   get_failed   driver.get(LOGIN_URL) (216) raised; the page and the context
\*                stay what they were
\*   no_fields    the login inputs were not located: raise TimeoutError (222)
\*   input_error  a call on the located inputs (223-226) raised
\*   accepted     credentials submitted, the site left the login form
\*   rejected     credentials submitted, the login form is still shown
\* and, but for get_failed, the browsing context in which the function ends:
\* "frame" when _switch_to_login_iframe_if_any (219) entered an iframe and
\* either an exception left the function before line 228, or
\* switch_to.default_content() raised there (228-229, and 162-167 for
\* no_fields); "top" otherwise.
LoginOutcomes ==
    {[kind |-> "get_failed", ctx |-> "top"]}
      \cup [kind : {"no_fields", "input_error", "accepted", "rejected"},
            ctx : {"top", "frame"}]

do_login_fronius(o, shown, context) ==
    CASE o.kind = "get_failed" ->
            [exc |-> "login_get", page |-> shown, ctx |-> context]
      [] o.kind = "no_fields" ->
            [exc |-> "login_fields", page |-> "login", ctx |-> o.ctx]
      [] o.kind = "input_error" ->
            [exc |-> "login_input", page |-> "login", ctx |-> o.ctx]
      [] o.kind = "accepted" ->
            [exc |-> "none", page |-> "home", ctx |-> o.ctx]
      [] o.kind = "rejected" ->
            [exc |-> "none", page |-> "login", ctx |-> o.ctx]

\* open_pv(driver): driver.get(PV_SYSTEM_URL) (248) is not guarded; everything
\* after it is.  What the browser does:
\*   get       "failed": driver.get raised, the page and the context stay what
\*             they were; otherwise the page it loaded, the dashboard or, the
\*             site redirecting, its sign-in page
\*   iframe    the iframe block (264-275): "none" when no iframe is found or
\*             switch_to.frame raises; "reload_raises" when the reload inside
\*             the iframe raises (268-272); "reloaded" when it has run
\*   restored  FALSE when switch_to.default_content() (273) raised, which the
\*             except clause (274-275) swallows: the context stays the iframe
\* reloaded: a reload() call was issued.
OpenOutcomes ==
    {[get |-> "failed", iframe |-> "none", restored |-> TRUE]}
      \cup {o \in [get : {"dashboard", "signin"},
                   iframe : {"none", "reload_raises", "reloaded"},
                   restored : BOOLEAN] : o.iframe = "none" => o.restored}

open_pv(o, shown, context) ==
    IF o.get = "failed"
    THEN [exc |-> "open_get", page |-> shown, ctx |-> context,
          reloaded |-> FALSE]
    ELSE [exc |-> "none", page |-> o.get,
          ctx |-> IF o.restored THEN "top" ELSE "frame",
          reloaded |-> (o.iframe = "reloaded")]

\* do_login_fronius(driver); open_pv(driver)  (417-418, 348-349)
LoginAndOpen(o1, o2, shown, context) ==
    LET a == do_login_fronius(o1, shown, context)
    IN  IF a.exc # "none"
        THEN [exc |-> a.exc, page |-> a.page, ctx |-> a.ctx,
              reloaded |-> FALSE]
        ELSE open_pv(o2, a.page, a.ctx)

\* _save_snap(driver, tag): TRUE iff an exception leaves it.  The screenshot
\* call is guarded (234-239), and without DEBUG_SAVE_SCREENSHOTS it is not made.
_save_snap(debug, shotFails) ==
    IF ~debug THEN FALSE
    ELSE IF shotFails THEN FALSE   \* except Exception: log(...)
    ELSE FALSE

\* ------------------------------------------------------------- extraction

\* The iframe block of _extract_textwise (330-341): "no_iframe" when no iframe
\* is found or switch_to.frame raises, "raise" when the script call inside the
\* iframe raises, or the iframe document's numbers.
FrameOutcomes == [kind : {"data"}, data : ScriptReadings]
                   \cup {[kind |-> "no_iframe", data |-> AllNone],
                         [kind |-> "raise",     data |-> AllNone]}

\* The iframe block of _extract_by_xpath (295-317): "no_iframe" when no iframe
\* is found, "raise" when switch_to.frame raises, or what the three element
\* lookups give inside the iframe (each is guarded).
XpathFrameOutcomes == [kind : {"data"}, data : XpathReadings]
                        \cup {[kind |-> "no_iframe", data |-> AllNone],
                              [kind |-> "raise",     data |-> AllNone]}

\* if prod or grid or cons: return prod, cons, grid   (326-327)
TextwiseReturnsTop(top) == \E m \in Metrics : Truthy(top[m])

\* _extract_textwise(driver), given the top-level script's data and the
\* outcome of the iframe block.
_extract_textwise(top, frame) ==
    IF TextwiseReturnsTop(top) THEN top
    ELSE IF frame.kind = "data" THEN frame.data
    ELSE top

\* _extract_by_xpath(driver): the three element texts parsed at top level;
\* if all are None, the same lookups inside the first iframe.
_extract_by_xpath(top, frame) ==
    IF ~AllAbsent(top) THEN top
    ELSE IF frame.kind = "data" THEN frame.data
    ELSE top

\* The browsing context an iframe block leaves when it ends in a finally
\* clause calling switch_to.default_content() inside try/except (339-341,
\* 315-317): "same" for the one before the block.  entered: switch_to.frame
\* was made; restored: default_content() did not raise.
AfterFrameBlock(entered, restored) ==
    IF restored THEN "top" ELSE IF entered THEN "frame" ELSE "same"

ContextAfter(context, after) == IF after = "same" THEN context ELSE after

\* The calls of _extract_textwise(driver): whether the unguarded script call
\* (322) raised; otherwise what the call returns, the metrics for which the
\* top-level match gave 0, and the context it leaves.
TextwiseCalls ==
    {[raised |-> TRUE, data |-> AllNone, zero |-> {}, after |-> "same"]}
      \cup {[raised |-> FALSE, data |-> top, zero |-> {m \in Metrics : top[m] = 0},
             after |-> "same"] :
               top \in {t \in ScriptReadings : TextwiseReturnsTop(t)}}
      \cup {[raised |-> FALSE, data |-> _extract_textwise(top, frame),
             zero |-> {m \in Metrics : top[m] = 0},
             after |-> AfterFrameBlock(frame.kind # "no_iframe", restored)] :
               top \in {t \in ScriptReadings : ~TextwiseReturnsTop(t)},
               frame \in FrameOutcomes, restored \in BOOLEAN}

\* The calls of _extract_by_xpath(driver): what the call returns and the
\* context it leaves (the one before when it returns at line 294).
XpathCalls ==
    {[data |-> _extract_by_xpath(top, frame),
      after |-> IF AllAbsent(top)
                THEN AfterFrameBlock(frame.kind = "data", restored)
                ELSE "same"] :
        top \in XpathReadings, frame \in XpathFrameOutcomes,
        restored \in BOOLEAN}

\* if prod is None: prod = xp_prod ...   (357-359), with the XPath value
\* taking precedence instead.
MergeXpathFirst(text, xpath) ==
    [m \in Metrics |-> IF xpath[m] # None THEN xpath[m] ELSE text[m]]

\* if prod is None: prod = xp_prod ...   (357-359)
Merge(text, xpath) ==
    [m \in Metrics |-> IF text[m] = None THEN xpath[m] ELSE text[m]]

\* -------------------------------------------------------------- reconcile

\* Lines 436-438 without the `is not None` test.
ReconciledUnguarded(l, r) ==
    [m \in Metrics |-> IF r[m] # l[m] THEN r[m] ELSE l[m]]

\* Lines 436-438: the metrics written.
MarkedAlways(l, r) == {m \in Metrics : r[m] # None}

Marked(l, r) == {m \in Metrics : r[m] # None /\ r[m] # l[m]}

\* Lines 436-438: last after them.
Reconciled(l, r) ==
    [m \in Metrics |-> IF m \in Marked(l, r) THEN r[m] ELSE l[m]]

\* Lines 436-438 are three statements, executed in this order.
ReconcileOrder == << "prod", "cons", "grid" >>

\* last after the first k of them.
ReconciledUpTo(l, r, k) ==
    [m \in Metrics |->
        IF m \in Marked(l, r) /\ \E i \in 1..k : ReconcileOrder[i] = m
        THEN r[m] ELSE l[m]]

\* ---------------------------------------------------------------- publish

\* Lines 441-443 without the call for SENSOR_GRID.
PublishOrderNoGrid == << "prod", "cons" >>

\* The order of the three ha_set_state calls (441-443).
PublishOrder == << "prod", "cons", "grid" >>

\* ha_set_state(entity_id, value): what it sends and whether it raises.
\* `fails` is the POST's outcome (network error or non-2xx).
ha_set_state_unguarded(configured, m, value, fails) ==
    IF ~configured \/ value = None
    THEN [calls |-> << >>, raised |-> FALSE]
    ELSE [calls |-> << [metric |-> m, value |-> value, ok |-> ~fails] >>,
          raised |-> fails]

ha_set_state_none_as_zero(configured, m, value, fails) ==
    IF ~configured
    THEN [calls |-> << >>, raised |-> FALSE]
    ELSE [calls |-> << [metric |-> m,
                        value |-> IF value = None THEN 0 ELSE value,
                        ok |-> ~fails] >>,
          raised |-> FALSE]

\* ha_set_state with `if not value: return` for the test of line 381.
ha_set_state_falsy_skipped(configured, m, value, fails) ==
    IF ~configured \/ ~Truthy(value)
    THEN [calls |-> << >>, raised |-> FALSE]
    ELSE [calls |-> << [metric |-> m, value |-> value, ok |-> ~fails] >>,
          raised |-> FALSE]

ha_set_state(configured, m, value, fails) ==
    IF ~configured THEN [calls |-> << >>, raised |-> FALSE]      \* 378-380
    ELSE IF value = None THEN [calls |-> << >>, raised |-> FALSE] \* 381-382
    ELSE [calls |-> << [metric |-> m, value |-> value, ok |-> ~fails] >>,
          raised |-> FALSE]                                       \* 386-394

\* Lines 441-443: the three calls in order, stopping at one that raises.
RECURSIVE PublishFrom(_, _, _, _)
PublishFrom(i, configured, l, failing) ==
    IF i > Len(PublishOrder) THEN [calls |-> << >>, raised |-> FALSE]
    ELSE LET m == PublishOrder[i]
             one == ha_set_state(configured, m, l[m], m \in failing)
         IN  IF one.raised THEN one
             ELSE LET rest == PublishFrom(i + 1, configured, l, failing)
                  IN  [calls |-> one.calls \o rest.calls, raised |-> rest.raised]

\* ---------------------------------------------------------------- counters

Min(a, b) == IF a < b THEN a ELSE b

\* One more reload() call issued.
Reloaded(n) == Min(n + 1, MaxReloads)

\* ------------------------------------------------------------------- main

\* The positions inside the while loop (421-459).
LoopPcs == {"tick", "scrape", "text", "xpath", "refresh", "return",
            "reconcile", "publish", "stale", "error", "sleep"}

\* The state before a first step at position `at`: last is empty, nothing is
\* read or published.  g: the history this run records; texts: the arguments
\* of the parser call, where that is the step.
InitAt(g, at, texts) ==
    /\ pc = at
    /\ last = AllNone
    /\ cur = AllNone
    /\ readings = NoReadings
    /\ updated = FALSE
    /\ pub = << >>
    /\ ha_configured \in BOOLEAN
    /\ interval_ok \in BOOLEAN
    /\ page = "blank"
    /\ ctx = "top"
    /\ relogin_due = FALSE
    /\ exc = "none"
    /\ driver = "open"
    /\ ghost = g
    /\ marked = {}
    /\ prev = NoReadings
    /\ emptyRun = 0
    /\ reloads = 0
    /\ scen = IF "scen" \in g THEN 0 ELSE -1
    /\ txt = AllNone
    /\ xp = AllNone
    /\ zeroShown = {}
    /\ observed = [m \in Metrics |-> {}]
    /\ unsent = {}
    /\ sawLogin = FALSE
    /\ submitted = FALSE
    /\ arg \in texts
    /\ watts = None

\* main() up to line 413: the driver is made, last is empty.
InitWith(g) == InitAt(g, "start", {<< >>})

Init == InitWith({"prev", "run", "scen"})

\* Lines 415-419 and the finally block (461-465): the initial login and
\* open_pv are inside the outer try only, so an exception ends main.
StartupLogin ==
    /\ pc = "start"
    /\ \E b \in {LoginAndOpen(o1, o2, page, ctx) :
                      o1 \in LoginOutcomes, o2 \in OpenOutcomes} :
              /\ page' = b.page
              /\ ctx' = b.ctx
              /\ exc' = b.exc
              /\ pc' = IF b.exc # "none" THEN "exited" ELSE "tick"
              /\ driver' = IF b.exc # "none" THEN "quit" ELSE driver  \* finally
              \* last_login was taken at 413, before the login: the period may
              \* have run out when the first tick tests it (424)
              /\ relogin_due' \in IF b.exc # "none" THEN {relogin_due} ELSE BOOLEAN
    /\ UNCHANGED << last, readings, updated, pub, ha_configured, interval_ok,
                    ghost, marked, prev, emptyRun, scen, observed, cur, txt,
                    xp, zeroShown, reloads, arg, watts, unsent, loginVars >>

\* driver.get(PV_SYSTEM_URL) of the periodic refresh (426).
GetOutcomes == {"loaded", "bounced", "get_failed"}

\* The page driver.get(PV_SYSTEM_URL) (426) has loaded.
PageAfterGet(g) == IF g = "bounced" THEN "signin" ELSE "dashboard"

\* Lines 424-431: the periodic refresh, when it is due.  check: what the call
\* of on_login_or_consent_page at line 428 gives; called: the call of
\* do_login_fronius at line 429 was made.
PeriodicRefresh(g, check, o1, o2, shown, context) ==
    IF g = "get_failed"
    THEN [exc |-> "refresh_get", page |-> shown, ctx |-> context,
          reloaded |-> FALSE, called |-> FALSE]
    ELSE LET there == PageAfterGet(g)
             a == IF check.exc # "none"
                  THEN [exc |-> check.exc, page |-> there, ctx |-> "top"]
                  ELSE IF check.yes
                  THEN do_login_fronius(o1, there, "top")
                  ELSE [exc |-> "none", page |-> there, ctx |-> "top"]
             b == IF a.exc # "none"
                  THEN [exc |-> a.exc, page |-> a.page, ctx |-> a.ctx,
                        reloaded |-> FALSE]
                  ELSE open_pv(o2, a.page, a.ctx)
         IN  [exc |-> b.exc, page |-> b.page, ctx |-> b.ctx,
              reloaded |-> b.reloaded,
              called |-> (check.exc = "none" /\ check.yes)]

\* The page that driver.get left for the check of line 428 has a login
\* indicator.
PromptAfterGet(g) == g # "get_failed" /\ PageAfterGet(g) \in LoginPages

\* The top of a tick (422-431).
TickBegin ==
    /\ pc = "tick"
    /\ IF relogin_due
       THEN \E g \in GetOutcomes :
               \E b \in {PeriodicRefresh(g, LoginCheck[reads, PageAfterGet(g)],
                                          o1, o2, page, ctx) :
                             reads \in BOOLEAN, o1 \in LoginOutcomes,
                             o2 \in OpenOutcomes} :
                   /\ page' = b.page
                   /\ ctx' = b.ctx
                   /\ exc' = b.exc
                   /\ relogin_due' = (b.exc # "none")   \* last_login = time.time()
                   /\ pc' = IF b.exc # "none" THEN "error" ELSE "scrape"
                   /\ reloads' = Rec("run", IF b.reloaded THEN Reloaded(reloads)
                                            ELSE reloads, 0)
                   /\ sawLogin' = Rec("login", sawLogin \/ PromptAfterGet(g), FALSE)
                   /\ submitted' = Rec("login", submitted \/ b.called, FALSE)
       ELSE /\ pc' = "scrape"
            /\ UNCHANGED << page, ctx, exc, relogin_due, loginVars, reloads >>
    /\ UNCHANGED << mainVars, cur, txt, xp, zeroShown >>

\* scrape_once, lines 346-349: re-login when the login page is shown.
ScrapeLogin ==
    /\ pc = "scrape"
    /\ \E reads \in BOOLEAN :
          LET check == LoginCheck[reads, page]
          IN  IF check.exc # "none"
              THEN /\ exc' = check.exc
                   /\ pc' = "error"
                   /\ submitted' = submitted
                   /\ UNCHANGED << page, ctx, reloads >>
              ELSE IF check.yes
              THEN \E b \in {LoginAndOpen(o1, o2, page, ctx) :
                                  o1 \in LoginOutcomes, o2 \in OpenOutcomes} :
                          /\ page' = b.page
                          /\ ctx' = b.ctx
                          /\ exc' = b.exc
                          /\ pc' = IF b.exc # "none" THEN "error" ELSE "text"
                          /\ reloads' = Rec("run", IF b.reloaded
                                                   THEN Reloaded(reloads)
                                                   ELSE reloads, 0)
                          /\ submitted' = Rec("login", TRUE, FALSE)
              ELSE /\ pc' = "text"
                   /\ submitted' = submitted
                   /\ UNCHANGED << page, ctx, exc, reloads >>
    /\ sawLogin' = Rec("login", sawLogin \/ page \in LoginPages, FALSE)
    /\ UNCHANGED << mainVars, cur, txt, xp, zeroShown, relogin_due >>

\* scrape_once, line 352: _extract_textwise.  Its first script call is not
\* guarded: an exception leaves scrape_once.
ExtractTextwise ==
    /\ pc = "text"
    /\ \E c \in TextwiseCalls :
          IF c.raised
          THEN /\ exc' = "extract_script"
               /\ pc' = "error"
               /\ UNCHANGED << cur, ctx, txt, zeroShown >>
          ELSE /\ exc' = exc
               /\ cur' = c.data
               /\ ctx' = ContextAfter(ctx, c.after)
               /\ txt' = Rec("txt", c.data, AllNone)
               /\ zeroShown' = Rec("zero", c.zero, {})
               /\ pc' = IF AnyAbsent(c.data) THEN "xpath" ELSE "return"
    /\ UNCHANGED << mainVars, xp, page, relogin_due, reloads, loginVars >>

\* scrape_once, lines 355-359: the XPath fallback and the merge.
ExtractByXpath ==
    /\ pc = "xpath"
    /\ \E c \in XpathCalls :
          /\ cur' = Merge(cur, c.data)
          /\ xp' = Rec("xp", c.data, AllNone)
          /\ ctx' = ContextAfter(ctx, c.after)
          /\ pc' = IF AllAbsent(cur') THEN "refresh" ELSE "return"
    /\ UNCHANGED << mainVars, txt, zeroShown, page, relogin_due, reloads,
                    exc, loginVars >>

\* scrape_once, lines 362-372: the iframe refresh and the second text pass.
\*   no_iframe      find_element or switch_to.frame raises
\*   reload_raises  the reload (366) raises inside the iframe
\*   unrestored     the reload has run and switch_to.default_content() (368)
\*                  raises: the second text pass is skipped
\*   reloaded       the reload has run, the context is restored, and
\*                  _extract_textwise is called again (370)
RefreshOutcomes == {"no_iframe", "reload_raises", "unrestored", "reloaded"}

IframeRefresh ==
    /\ pc = "refresh"
    /\ \E o \in RefreshOutcomes :
          CASE o = "no_iframe" ->
                  UNCHANGED << cur, ctx, reloads >>
            [] o = "reload_raises" ->
                  /\ ctx' = "frame"
                  /\ UNCHANGED << cur, reloads >>
            [] o = "unrestored" ->
                  /\ reloads' = Rec("run", Reloaded(reloads), 0)
                  /\ ctx' = "frame"
                  /\ cur' = cur
            [] o = "reloaded" ->
                  /\ reloads' = Rec("run", Reloaded(reloads), 0)
                  /\ \E c \in TextwiseCalls :
                        IF c.raised                 \* except Exception: pass
                        THEN cur' = cur /\ ctx' = "top"
                        ELSE cur' = c.data /\ ctx' = ContextAfter("top", c.after)
    /\ pc' = "return"
    /\ UNCHANGED << mainVars, txt, xp, zeroShown, page, relogin_due, exc,
                    loginVars >>

\* return prod, grid, cons (375) and prod, grid, cons = scrape_once(driver) (433).
ScrapeReturn ==
    /\ pc = "return"
    /\ readings' = cur
    /\ cur' = AllNone
    /\ txt' = AllNone
    /\ xp' = AllNone
    /\ emptyRun' = Rec("run", IF AllAbsent(cur) THEN Min(emptyRun + 1, 4) ELSE 0, 0)
    /\ reloads' = IF AllAbsent(cur) THEN reloads ELSE 0
    /\ scen' = IF scen \in 0..2 /\ cur = Scenario[scen + 1] THEN scen + 1 ELSE -1
    /\ observed' = Rec("observed",
                       [m \in Metrics |-> observed[m] \cup ({cur[m]} \ {None})],
                       observed)
    /\ pc' = "reconcile"
    /\ UNCHANGED << last, updated, pub, ha_configured, interval_ok, page,
                    ctx, relogin_due, exc, driver, ghost, marked, prev,
                    zeroShown, arg, watts, unsent, loginVars >>

\* Lines 435-438.
Reconcile ==
    /\ pc = "reconcile"
    /\ marked' = Marked(last, readings)
    /\ last' = Reconciled(last, readings)
    /\ updated' = (Marked(last, readings) # {})
    /\ unsent' = Rec("unsent", unsent \cup Marked(last, readings), {})
    /\ pc' = "publish"
    /\ UNCHANGED << cur, readings, pub, ha_configured, interval_ok, page,
                    ctx, relogin_due, exc, driver, ghost, prev, emptyRun,
                    reloads, scen, txt, xp, zeroShown, observed, arg, watts,
                    loginVars >>

\* Lines 440-445.
Publish ==
    /\ pc = "publish"
    /\ IF updated
       THEN \E failing \in SUBSET Metrics :
               LET p == PublishFrom(1, ha_configured, last, failing)
               IN  /\ pub' = p.calls
                   /\ exc' = IF p.raised THEN "publish" ELSE exc
                   /\ pc' = IF p.raised THEN "error" ELSE "stale"
       ELSE /\ pub' = << >>
            /\ exc' = exc
            /\ pc' = "stale"
    /\ unsent' = Rec("unsent",
                     unsent \ {pub'[i].metric : i \in {k \in 1..Len(pub') : pub'[k].ok}},
                     {})
    /\ UNCHANGED << last, cur, readings, updated, ha_configured, interval_ok,
                    page, ctx, relogin_due, driver, ghost, marked, prev,
                    emptyRun, reloads, scen, txt, xp, zeroShown, observed,
                    arg, watts, loginVars >>

\* Lines 448-452: the page reload of a tick without any number.
ReloadOutcomes == {"raises", "same_page", "login_page"}

StaleReload ==
    /\ pc = "stale"
    /\ IF AllAbsent(readings)
       THEN \E o \in ReloadOutcomes, debug \in BOOLEAN, shotFails \in BOOLEAN :
               IF _save_snap(debug, shotFails)
               THEN /\ exc' = "snapshot"
                    /\ pc' = "error"
                    /\ UNCHANGED << reloads, page >>
               ELSE IF o = "raises"
               THEN /\ exc' = "reload_script"
                    /\ pc' = "error"
                    /\ UNCHANGED << reloads, page >>
               ELSE /\ reloads' = Rec("run", Reloaded(reloads), 0)
                    \* in an iframe, location.reload() reloads the iframe
                    /\ page' = IF ctx = "top" /\ o = "login_page"
                               THEN "expired" ELSE page
                    /\ exc' = exc
                    /\ pc' = "sleep"
       ELSE /\ pc' = "sleep"
            /\ UNCHANGED << reloads, page, exc >>
    /\ UNCHANGED << mainVars, cur, txt, xp, zeroShown, ctx, relogin_due,
                    loginVars >>

\* Lines 454-457: the tick's except clause.
CycleError ==
    /\ pc = "error"
    /\ \E debug \in BOOLEAN, shotFails \in BOOLEAN :
          /\ pc' = IF _save_snap(debug, shotFails) THEN "exited" ELSE "sleep"
          /\ driver' = IF _save_snap(debug, shotFails) THEN "quit" ELSE driver
    /\ cur' = AllNone
    /\ txt' = AllNone
    /\ xp' = AllNone
    \* a tick that raised before scrape_once returned has no readings
    /\ emptyRun' = IF readings = NoReadings THEN 0 ELSE emptyRun
    /\ reloads' = IF readings = NoReadings THEN 0 ELSE reloads
    /\ scen' = IF readings = NoReadings THEN -1 ELSE scen
    /\ UNCHANGED << last, readings, updated, pub, ha_configured, interval_ok,
                    page, ctx, relogin_due, exc, ghost, marked, prev,
                    zeroShown, observed, arg, watts, unsent, loginVars >>

\* time.sleep(SCRAPE_INTERVAL_SEC) (459).  While it sleeps the relogin period
\* may run out (or the clock be set back) and the site may drop the session
\* and show its login page.
Sleep ==
    /\ pc = "sleep"
    /\ IF interval_ok
       THEN /\ pc' = "tick"
            /\ prev' = Rec("prev", readings, NoReadings)
            /\ readings' = NoReadings
            /\ updated' = FALSE
            /\ marked' = {}
            /\ pub' = << >>
            /\ exc' = "none"
            /\ zeroShown' = {}
            /\ sawLogin' = FALSE
            /\ submitted' = FALSE
            \* line 424 compares the wall clock with last_login anew
            /\ relogin_due' \in BOOLEAN
            /\ page' \in {page, "expired"}
            /\ driver' = driver
       ELSE \* time.sleep raises ValueError outside the try of 422-457: the
            \* finally block (461-465) runs and main ends
            /\ pc' = "exited"
            /\ exc' = "sleep_interval"
            /\ driver' = "quit"
            /\ UNCHANGED << prev, readings, updated, marked, pub, zeroShown,
                            sawLogin, submitted, relogin_due, page >>
    /\ UNCHANGED << last, cur, ha_configured, interval_ok, ctx, ghost,
                    emptyRun, reloads, scen, txt, xp, observed, arg, watts,
                    unsent >>

\* The signals that end the process from outside.  main() installs no
\* handler, so each has Python's default disposition:
\*   SIGINT   KeyboardInterrupt is raised in main; no `except Exception`
\*            clause catches it, the finally block (461-465) runs
\*   SIGTERM  the process is terminated at once; no Python code runs
Signals == {"SIGINT", "SIGTERM"}

\* A signal is delivered while main() is between lines 415 and 463.  The
\* process ends: of its state only the cause, the browser and the last
\* values are kept.
\*   k      the signal arrives between two statements: in the reconcile step
\*          after the first k of the three statements 436-438
\*   quits  whether driver.quit() (463) has returned when the process ends.
\*          For a SIGINT it is FALSE when the signal is delivered inside the
\*          finally block before the call, be it a second one or the first
\*          one after the startup login or time.sleep raised: the
\*          KeyboardInterrupt leaves the block, `except Exception` (464) does
\*          not catch it, and main ends with the browser open.  For a SIGTERM
\*          it is TRUE when the finally block was running, entered by a
\*          SIGINT or an exception, and the call had returned.
TerminationSignal ==
    /\ pc \in {"start"} \cup LoopPcs
    /\ \E sig \in Signals, quits \in BOOLEAN :
          /\ exc' = sig
          /\ pc' = IF sig = "SIGINT" THEN "exited" ELSE "killed"
          /\ driver' = IF quits THEN "quit" ELSE driver
    /\ IF pc = "reconcile"
       THEN \E k \in 0..Len(ReconcileOrder) :
               last' = ReconciledUpTo(last, readings, k)
       ELSE last' = last
    /\ cur' = AllNone
    /\ readings' = NoReadings
    /\ updated' = FALSE
    /\ pub' = << >>
    /\ marked' = {}
    /\ prev' = NoReadings
    /\ emptyRun' = 0
    /\ reloads' = 0
    /\ scen' = -1
    /\ txt' = AllNone
    /\ xp' = AllNone
    /\ zeroShown' = {}
    /\ observed' = [m \in Metrics |-> {}]
    /\ unsent' = {}
    /\ sawLogin' = FALSE
    /\ submitted' = FALSE
    /\ page' = "blank"
    /\ ctx' = "top"
    /\ relogin_due' = FALSE
    /\ UNCHANGED << ha_configured, interval_ok, ghost, arg, watts >>

Next ==
    \/ StartupLogin
    \/ TickBegin
    \/ ScrapeLogin
    \/ ExtractTextwise
    \/ ExtractByXpath
    \/ IframeRefresh
    \/ ScrapeReturn
    \/ Reconcile
    \/ Publish
    \/ StaleReload
    \/ CycleError
    \/ Sleep
    \/ TerminationSignal

\* The main loop, with the history of consecutive ticks.
Spec == Init /\ [][Next]_vars

\* The same program, recording what each extraction strategy returned.
InitScrape == InitWith({"txt", "xp", "zero"})

SpecScrape == InitScrape /\ [][Next]_vars

\* ---------------------------------------------------- the parser on its own

\* The longest text of AllTexts.
MaxLen == 4

\* The characters of those texts.
Alphabet == {"0", "5", ",", ".", " ", "\n", "k", "W", "w", "-"}

\* Every text of at most MaxLen characters of Alphabet.
AllTexts == UNION {[1..n -> Alphabet] : n \in 0..MaxLen}

\* Longer texts: the three examples of the parser's contract, and one for
\* each of its cases.
Examples ==
    { << "0", ",", "8", "3", " ", "k", "W" >>,
      << "8", "2", "9", " ", "W" >>,
      << "n", "o", " ", "n", "u", "m", "b", "e", "r", "s", " ", "h", "e", "r", "e" >>,
      << "2", ",", "5", " ", "W" >>,
      << "3", ".", "5", " ", "W" >>,
      << "0", ",", "0", "0", "0", "4", " ", "k", "W" >>,
      << "0", ",", "5", "0", "1", "5", " ", "k", "W" >>,
      << "2", ",", "0", "0", "0", "5", " ", "k", "W" >>,
      << "2", ".", "5", "0", "0", "0", "0", "0", "0", "0", "0", "0", "0", "0",
         "0", "0", "0", "1", " ", "W" >>,
      << "1", ".", "4", "9", "9", "9", "9", "9", "9", "9", "9", "9", "9", "9",
         "9", "9", "9", "9", "9", "9", "9", " ", "W" >>,
      << "1", "2", " ", "k", "W", "h" >>,
      << "5", "nbsp", "K", "W" >>,
      << "-", "0", ".", "8", " ", "k", "W" >>,
      << "7", " ", "k", " ", "W" >>,
      << "\t", "5", "\t", "k", "W", "\r", "\n" >>,
      << "ar3", " ", "W" >>,
      << "1", "ar3", ",", "fw5", " ", "k", "W" >>,
      << "U+0967", "U+1D7D0", ".", "U+0E55", " ", "k", "w" >>,
      << "5", "thin", "k", "W" >>,
      << "x1c", "5", "nnbsp", "nel", "u3000", "W", "x1f" >>,
      << "5", " ", "kelvin", "W" >>,
      << "1", ".", "2", "3", "4", ",", "5", " ", "W" >> }

Texts == AllTexts \cup Examples

\* A call _parse_watts_str(s) is about to be made, for any text s.
InitParse == InitAt({}, "parse", Texts) /\ ha_configured /\ interval_ok

\* The call returns.
ParseWatts ==
    /\ pc = "parse"
    /\ watts' = _parse_watts_str(arg)
    /\ pc' = "parsed"
    /\ UNCHANGED << last, cur, readings, updated, pub, ha_configured,
                    interval_ok, page, ctx, relogin_due, exc, driver,
                    ghost, marked, prev, emptyRun, reloads, scen, txt, xp,
                    zeroShown, observed, arg, unsent, loginVars >>

NextParse == ParseWatts

SpecParse == InitParse /\ [][NextParse]_vars

\* What the first group of a pattern of JS_EXTRACT (92-94) can match,
\* (\d+(?:[.,]\d+)?) with JavaScript's \d, up to MaxLen characters.
JsNumbers ==
    {s \in UNION {[1..n -> JsDigits \cup {".", ","}] : n \in 1..MaxLen} :
        /\ s[1] \in JsDigits
        /\ s[Len(s)] \in JsDigits
        /\ Cardinality({i \in 1..Len(s) : s[i] \notin JsDigits}) <= 1}

\* What the second group, (kW|W) under the i flag, can match.
JsUnits == {u \in UNION {[1..n -> {"k", "K", "w", "W"}] : n \in 1..2} :
               /\ u[Len(u)] \in {"w", "W"}
               /\ Len(u) = 2 => u[1] \in {"k", "K"}}

\* A call toWatts(numStr, unit) is about to be made, for any match.
InitConvert == InitAt({}, "convert", JsNumbers) /\ ha_configured /\ interval_ok

\* The call returns.
ConvertWatts ==
    /\ pc = "convert"
    /\ \E unit \in JsUnits : watts' = toWatts(arg, unit)
    /\ pc' = "converted"
    /\ UNCHANGED << last, cur, readings, updated, pub, ha_configured,
                    interval_ok, page, ctx, relogin_due, exc, driver,
                    ghost, marked, prev, emptyRun, reloads, scen, txt, xp,
                    zeroShown, observed, arg, unsent, loginVars >>

\* The main loop together with the two functions every reading comes from,
\* called on any text and on any match.
InitValues == InitWith({}) \/ InitParse \/ InitConvert

NextValues ==
    \/ Next
    \/ ParseWatts
    \/ ConvertWatts

SpecValues == InitValues /\ [][NextValues]_vars

\* The same program, recording what each tick did about the login page and
\* which last values the sink has not received.
InitTick == InitWith({"login", "unsent"})

SpecTick == InitTick /\ [][Next]_vars

\* The same program, recording every reading extraction produced.
InitSink == InitWith({"observed"})

SpecSink == InitSink /\ [][Next]_vars

TypeOK ==
    /\ last \in Readings
    /\ cur \in Readings
    /\ readings \in Readings \cup {NoReadings}
    /\ prev \in Readings \cup {NoReadings}
    /\ ctx \in {"top", "frame"}
    /\ reloads \in 0..MaxReloads
    /\ driver \in {"open", "quit"}
    /\ page \in Pages
    /\ XpathReadings \subseteq Readings
    /\ ScriptReadings \subseteq Readings

\* ------------------------------------------------------------ properties

\* The metrics this tick has sent to the sink.
PubMetrics == {pub[i].metric : i \in 1..Len(pub)}

\* C1: last[m] changes only by being overwritten with this tick's non-absent
\* reading of m; an absent reading, or a tick that ends in an exception,
\* leaves it exactly as it was, and it never goes back to None.
C1_LastKnownGoodKept ==
    [][\A m \in Metrics :
          last'[m] # last[m] =>
             (readings # NoReadings /\ readings[m] # None /\ last'[m] = readings[m])
      ]_vars

\* A tick read prod as absent and ended in an exception; last["prod"] is
\* still the 1200 of an earlier tick.
C1_Witness ==
    /\ pc = "sleep"
    /\ exc = "reload_script"
    /\ readings # NoReadings
    /\ readings["prod"] = None
    /\ last["prod"] = 1200

\* C2: every value sent to the sink for a metric is a non-absent reading of
\* that metric which extraction returned in this tick or an earlier one.
C2_OnlyObservedPublished ==
    \A i \in 1..Len(pub) : pub[i].value \in observed[pub[i].metric]

\* A cached, genuinely observed 0 is sent in a tick whose reading of that
\* metric is absent.
C2_Witness ==
    /\ pc = "sleep"
    /\ \E i \in 1..Len(pub) :
          pub[i].value = 0 /\ readings[pub[i].metric] = None

\* C3 as claimed: only the metrics marked in a tick are published in it, and
\* the scenario's ticks make 3, 0 and 2 publish calls.
C3_OnlyMarkedPublished ==
    /\ PubMetrics \subseteq marked
    /\ (pc = "sleep" /\ ha_configured) =>
          /\ scen = 1 => Len(pub) = 3
          /\ scen = 2 => Len(pub) = 0
          /\ scen = 3 => Len(pub) = 2

\* C3 amended: a tick publishes iff it marked at least one metric (and the
\* sink is configured); it then makes one call for every metric whose
\* last-known-good value is set, marked or not, with that value.  The
\* scenario's ticks make 3, 0 and 3 publish calls.
C3_AllPublishedWhenAnyMarked ==
    pc = "sleep" =>
       /\ PubMetrics = IF marked # {} /\ ha_configured
                       THEN {m \in Metrics : last[m] # None}
                       ELSE {}
       /\ Len(pub) = Cardinality(PubMetrics)
       /\ \A i \in 1..Len(pub) : pub[i].value = last[pub[i].metric]
       /\ ha_configured =>
             /\ scen = 1 => Len(pub) = 3
             /\ scen = 2 => Len(pub) = 0
             /\ scen = 3 => Len(pub) = 3

\* The scenario's third tick has published three values, the unmarked
\* consumption among them.
C3_Witness ==
    /\ pc = "sleep"
    /\ scen = 3
    /\ Len(pub) = 3
    /\ "cons" \notin marked
    /\ "cons" \in PubMetrics

\* C4: a tick whose readings equal those of the tick before writes no
\* last-known-good entry and makes no publish call.
C4_Idempotent ==
    [][ ((pc = "reconcile" /\ prev = readings) =>
            (last' = last /\ marked' = {} /\ updated' = FALSE))
        /\ ((pc = "publish" /\ prev = readings) => pub' = << >>)
      ]_vars

\* Two consecutive ticks read the same numbers; the second one is over and
\* has published nothing.
C4_Witness ==
    /\ pc = "sleep"
    /\ readings # NoReadings
    /\ prev = readings
    /\ ~AllAbsent(readings)
    /\ ha_configured
    /\ pub = << >>

\* C5 as claimed: when the text match and the XPath lookup both give a value
\* for a metric and the values differ, scrape_once returns the XPath one.
C5_StructuredWins ==
    pc = "return" =>
       \A m \in Metrics :
          (txt[m] # None /\ xp[m] # None /\ txt[m] # xp[m]) => cur[m] = xp[m]

\* C5 amended: in that case scrape_once returns the value of the text match
\* (what _extract_textwise returned); the XPath value only fills a metric the
\* text match left absent.
C5_TextWins ==
    pc = "return" =>
       \A m \in Metrics :
          (txt[m] # None /\ xp[m] # None /\ txt[m] # xp[m]) => cur[m] = txt[m]

\* Both strategies gave a value for the same metric, and the values differ.
C5_Witness ==
    /\ pc = "return"
    /\ \E m \in Metrics : txt[m] # None /\ xp[m] # None /\ txt[m] # xp[m]

\* C6 as claimed: at the end of the third consecutive tick whose readings are
\* all absent, exactly one reload has been issued.
C6_OneReloadInThreeTicks ==
    (pc = "sleep" /\ emptyRun = 3) => reloads = 1

\* C7 as claimed: a login whose fields cannot be located never ends main.
C7_LoginFailureNotFatal ==
    ~(pc = "exited" /\ exc = "login_fields")

\* C8 as claimed: once inside the loop, nothing a tick raises leaves the loop:
\* the except clause goes on to the sleep, and the sleep to the next tick.
\* (A signal from outside is not a step of the tick.)
C8_TickIsolation ==
    [][ (pc \in LoopPcs /\ exc' \notin Signals) =>
          (pc' \in LoopPcs
           /\ (pc = "error" => pc' = "sleep")
           /\ (pc = "sleep" => pc' = "tick"))
      ]_vars

\* C9: a failed publish call does not raise into the tick, does not stop the
\* calls for the other metrics, and publishing changes no last entry.
C9_PublishFailureIsolated ==
    /\ []((\E i \in 1..Len(pub) : ~pub[i].ok) =>
             /\ PubMetrics = {m \in Metrics : last[m] # None}
             /\ exc # "publish"
             /\ pc # "error")
    /\ [][ (pc = "publish") => (last' = last) ]_vars

\* The first of three publish calls failed and the other two were made.
C9_Witness ==
    /\ pc = "sleep"
    /\ Len(pub) = 3
    /\ ~pub[1].ok
    /\ pub[2].ok
    /\ pub[3].ok

\* C10 as claimed: a tick (without exception) in which the dashboard's text
\* shows 0 for a metric ends with last[m] = 0, and publishes 0 for it if that
\* changed last[m].  Stated for the ticks in which extraction returned no
\* other number for the metric (none of its documents showed a different one).
C10_ZeroIsPublished ==
    (pc = "sleep" /\ exc = "none") =>
       \A m \in zeroShown :
          readings[m] \in {None, 0} =>
             /\ last[m] = 0
             /\ (ha_configured /\ m \in marked) =>
                   \E i \in 1..Len(pub) : pub[i].metric = m /\ pub[i].value = 0

\* C11 as claimed: whenever main has ended, by a failed startup login, by an
\* exception that left the loop or by a termination signal, driver.quit() has
\* been called.
C11_QuitOnEveryExit ==
    pc \in {"exited", "killed"} => driver = "quit"

\* C12: no reading extraction returns, no last-known-good value and no value
\* sent to the sink is negative; each is None or a non-negative integer, and a
\* sent value is never None.  The same holds of what _parse_watts_str and
\* toWatts, the two functions every reading comes from, return for any text
\* and any match.
C12_NonNegative ==
    /\ \A m \in Metrics : cur[m] = None \/ cur[m] \in Nat
    /\ readings # NoReadings =>
          \A m \in Metrics : readings[m] = None \/ readings[m] \in Nat
    /\ \A m \in Metrics : last[m] = None \/ last[m] \in Nat
    /\ \A i \in 1..Len(pub) : pub[i].value \in Nat
    /\ pc \in {"parsed", "converted"} => (watts = None \/ watts \in Nat)

\* A tick read three numbers, the grid's 800 among them, which is what the
\* element text "-800 W" parses to, and has published all three.
C12_Witness ==
    /\ pc = "sleep"
    /\ Len(pub) = 3
    /\ readings # NoReadings
    /\ readings["grid"] = 800
    /\ last = readings
    /\ _parse_watts_str(<< "-", "8", "0", "0", " ", "W" >>) = 800

\* The places of the first decimal number of s and of what follows it, said
\* without the parser: i..j its integer digits, e its last character, u the
\* first character after the spaces that follow it.
FirstNumber(s) ==
    LET n == Len(s)
        i == CHOOSE a \in 1..n :
                s[a] \in Digits /\ \A k \in 1..(a - 1) : s[k] \notin Digits
        j == CHOOSE b \in i..n :
                /\ \A k \in i..b : s[k] \in Digits
                /\ b = n \/ s[b + 1] \notin Digits
        frac == j + 2 <= n /\ s[j + 1] \in {",", "."} /\ s[j + 2] \in Digits
        e == IF frac
             THEN CHOOSE b \in (j + 2)..n :
                     /\ \A k \in (j + 2)..b : s[k] \in Digits
                     /\ b = n \/ s[b + 1] \notin Digits
             ELSE j
        u == CHOOSE a \in (e + 1)..(n + 1) :
                /\ \A k \in (e + 1)..(a - 1) : s[k] \in Spaces
                /\ a = n + 1 \/ s[a] \notin Spaces
    IN  [i |-> i, j |-> j, frac |-> frac, e |-> e,
         kilo |-> /\ u + 1 <= n
                  /\ s[u] \in {"k", "K", "kelvin"}
                  /\ s[u + 1] \in {"W", "w"}]

\* C13 as claimed: _parse_watts_str returns None for a text without a digit;
\* otherwise the first decimal number of the text (comma or period before the
\* fraction), times 1000 when kW follows it in any letter case, rounded to an
\* integer: a natural number at most a half away from it.  "0,83 kW" gives
\* 830, "829 W" gives 829 and "no numbers here" gives None.
C13_ParseWatts ==
    pc = "parsed" =>
       /\ (\A k \in 1..Len(arg) : arg[k] \notin Digits) => watts = None
       /\ (\E k \in 1..Len(arg) : arg[k] \in Digits) =>
             LET f == FirstNumber(arg)
                 k == IF f.frac THEN f.e - f.j - 1 ELSE 0
                 \* the number is num / 10^k
                 num == BigMulAdd(
                           BigAdd(BigTimesPow10(DigitsValue(arg, f.i, f.j), k),
                                  IF f.frac THEN DigitsValue(arg, f.j + 2, f.e)
                                  ELSE << >>),
                           IF f.kilo THEN 1000 ELSE 1, 0)
             IN  /\ watts \in Nat
                 /\ BigCmp(BigMulAdd(BigDist(BigTimesPow10(BigOfInt(watts), k),
                                              num), 2, 0),
                           BigTimesPow10(<< 1 >>, k)) <= 0
       /\ arg = << "0", ",", "8", "3", " ", "k", "W" >> => watts = 830
       /\ arg = << "8", "2", "9", " ", "W" >> => watts = 829
       /\ arg = << "n", "o", " ", "n", "u", "m", "b", "e", "r", "s", " ",
                   "h", "e", "r", "e" >> => watts = None

\* C14 as claimed: an exception raised by a single extraction lookup is taken
\* as an absent value; it never leaves scrape_once, so no tick is in its
\* except clause, reconcile skipped, because a lookup raised.
C14_LookupFailureContained ==
    pc = "error" => exc # "extract_script"

\* C15 as claimed: a metric's value is the first non-absent one in chain
\* order, 0 included, and is never replaced later in the tick: a metric whose
\* top-level text match gave 0 keeps 0 through the rest of scrape_once.
C15_FirstSuccessWins ==
    pc \in {"xpath", "refresh", "return"} => \A m \in zeroShown : cur[m] = 0

\* C16 as claimed: the extraction steps of a tick run only while the page
\* shows no login indicator; a tick whose login left the login page showing
\* does not reach them.
C16_ExtractOnlyAuthenticated ==
    pc \in {"text", "xpath", "refresh", "return"} => ~onLogin

\* C17: inside the loop a tick calls do_login_fronius only if the page had a
\* login indicator when the tick called on_login_or_consent_page; no step
\* after that check (extraction, the iframe refresh, the reload of a tick
\* without numbers, the except clause) calls it, nor brings the browser to the
\* login form of LOGIN_URL or to the page an accepted login leaves.
C17_ReloginOnlyOnPrompt ==
    /\ [](submitted => sawLogin)
    /\ [][ (pc \in {"text", "xpath", "refresh", "return", "reconcile",
                    "publish", "stale", "error"}
            /\ pc' \in LoopPcs) =>
              /\ submitted' = submitted
              /\ page' \in {"login", "home"} => page' = page
         ]_vars

\* A tick found a login page, logged in again, read no number at all and has
\* reloaded the page.
C17_Witness ==
    /\ pc = "sleep"
    /\ exc = "none"
    /\ sawLogin
    /\ submitted
    /\ page = "dashboard"
    /\ readings # NoReadings
    /\ AllAbsent(readings)

\* C18 as claimed: whenever _extract_textwise, _extract_by_xpath or scrape_once
\* has returned, the browsing context is the top-level document.
C18_ContextRestored ==
    pc \in {"xpath", "refresh", "return", "reconcile"} => ctx = "top"

\* C19 as claimed: a metric whose last value the sink has not received (its
\* POST failed in an earlier tick) and whose reading did not change in this
\* tick is not published in this tick.
C19_RetryOnlyIfChanged ==
    [][ (pc = "publish" /\ pc' = "stale") =>
           \A m \in unsent \ marked : m \notin PubMetrics'
      ]_vars

\* C19 amended: such a metric is published again in this tick exactly when
\* the reading of some metric, not necessarily its own, changed in this tick;
\* while no reading changes nothing is sent.  A failed POST never stops the
\* tick.
C19_RetryWhenAnyChanged ==
    [][ (pc = "publish" /\ exc' \notin Signals) =>
           /\ pc' = "stale"
           /\ ha_configured =>
                 \A m \in unsent \ marked : (m \in PubMetrics') <=> (marked # {})
      ]_vars

\* The sink has missed a value of an earlier tick, and this tick, reading
\* nothing new, has sent nothing.
C19_Witness ==
    /\ pc = "sleep"
    /\ exc = "none"
    /\ ha_configured
    /\ unsent # {}
    /\ readings # NoReadings
    /\ ~AllAbsent(readings)
    /\ marked = {}
    /\ pub = << >>

====
